---- MODULE Spec2Model ----
(***************************************************************************)
(* Model of listings/views.py: ListingViewSet, BookingViewSet and          *)
(* ReviewViewSet, three Django REST framework ModelViewSets over the       *)
(* relational store, with the framework's request pipeline (permission     *)
(* check, get_object through get_queryset, the mixins' update / destroy    *)
(* that call perform_update / perform_destroy and discard what they        *)
(* return).                                                                *)
(*                                                                         *)
(* Tables are sequences of rows; row i has id i, and a deleted row leaves  *)
(* the tombstone Deleted behind, so primary keys are never reused.         *)
(* Texts are sequences of characters, so that case folding and substring   *)
(* search are computed and not assumed.                                    *)
(***************************************************************************)
EXTENDS Integers, Sequences, FiniteSets, TLC

VARIABLES
    listings,      \* the Listing table
    bookings,      \* the Booking table
    reviews,       \* the Review table
    request,       \* the request in hand: the one handled last, or, before
                   \* the first step of the listing search, the one to handle
    response       \* the response to the request handled last

vars == <<listings, bookings, reviews, request, response>>

----------------------------------------------------------------------------
(* Bounds of the model *)

MaxListings == 2
MaxBookings == 1
MaxReviews == 2
MaxBookingRows == 2

----------------------------------------------------------------------------
(* Principals: request.user *)

Users == {"alice", "bob", "carol"}
AnonymousUser == "AnonymousUser"
Principals == Users \cup {AnonymousUser}

is_authenticated(user) == user # AnonymousUser

\* Python's None, what dict.get returns for a missing key
None == "None"

----------------------------------------------------------------------------
(* rest_framework.status *)

HTTP_200_OK == 200
HTTP_201_CREATED == 201
HTTP_204_NO_CONTENT == 204
HTTP_400_BAD_REQUEST == 400
HTTP_401_UNAUTHORIZED == 401
HTTP_403_FORBIDDEN == 403
HTTP_404_NOT_FOUND == 404

\* An unauthenticated request refused by a permission class is answered 401
\* when the first authentication class sends a WWW-Authenticate header and
\* 403 otherwise; the project's settings decide which.
NotAuthenticatedStatus == {HTTP_401_UNAUTHORIZED, HTTP_403_FORBIDDEN}

NOT_AUTHENTICATED == "Authentication credentials were not provided."
NOT_FOUND == "Not found."
INVALID == "Invalid input."

\* What a request is: the action of the view, the caller, the primary key in
\* the URL (0 when there is none), the query string and the body
Request(op, user, pk, params, data) ==
    [op |-> op, user |-> user, pk |-> pk, params |-> params, data |-> data]

Response(op, status, error, data) ==
    [op |-> op, status |-> status, error |-> error, data |-> data]

----------------------------------------------------------------------------
(* The store *)

Deleted == [id |-> 0]

\* Model.objects.all(): the live rows of a table, in primary key order
Objects(table) == SelectSeq(table, LAMBDA row : row.id # 0)

ListingIds == 1..MaxListings
BookingIds == 1..MaxBookings
ReviewIds == 1..MaxReviews

Exists(table, pk) == pk \in DOMAIN table /\ table[pk].id # 0

\* QuerySet.distinct(): duplicate rows removed, first occurrences kept
RECURSIVE Distinct(_)
Distinct(rows) ==
    IF rows = <<>> THEN <<>>
    ELSE LET init == Distinct(SubSeq(rows, 1, Len(rows) - 1))
             last == rows[Len(rows)]
         IN  IF \E i \in DOMAIN init : init[i] = last THEN init
             ELSE Append(init, last)

\* get_object(): the row of the queryset with primary key pk, or Http404
InQuerySet(queryset, pk) == \E i \in DOMAIN queryset : queryset[i].id = pk

\* Number of times the row with primary key pk occurs in a result
Occurrences(rows, pk) == Cardinality({i \in DOMAIN rows : rows[i].id = pk})

----------------------------------------------------------------------------
(* Permission classes *)

IsAuthenticated(user) == is_authenticated(user)

SAFE_METHODS == {"GET", "HEAD", "OPTIONS"}

IsAuthenticatedOrReadOnly(method, user) ==
    method \in SAFE_METHODS \/ is_authenticated(user)

\* The response to a request the permission class refuses; the store is
\* left alone.
NotAuthenticated(op) ==
    /\ \E code \in NotAuthenticatedStatus :
         response' = Response(op, code, NOT_AUTHENTICATED, <<>>)
    /\ UNCHANGED <<listings, bookings, reviews>>

\* Http404 from get_object()
Http404(op) ==
    /\ response' = Response(op, HTTP_404_NOT_FOUND, NOT_FOUND, <<>>)
    /\ UNCHANGED <<listings, bookings, reviews>>

----------------------------------------------------------------------------
(* Texts, as sequences of characters *)

Austin == <<"A", "u", "s", "t", "i", "n">>
Boston == <<"B", "o", "s", "t", "o", "n">>
Loftus == <<"L", "o", "f", "t", "u", "s">>
Loft == <<"L", "o", "f", "t">>
Inn == <<"I", "n", "n">>
Cozy == <<"C", "o", "z", "y">>
ALoft == <<"a", " ", "l", "o", "f", "t">>
apartment == <<"a", "p", "t">>
hotel == <<"h", "o", "t", "e", "l">>

LowerChar(c) ==
    CASE c = "A" -> "a" [] c = "B" -> "b" [] c = "C" -> "c" [] c = "F" -> "f"
      [] c = "I" -> "i" [] c = "L" -> "l" [] c = "O" -> "o" [] c = "S" -> "s"
      [] c = "T" -> "t" [] c = "U" -> "u" [] OTHER -> c

lower(text) == [i \in 1..Len(text) |-> LowerChar(text[i])]

\* The exact lookup of a text column
exact(text, value) == text = value

\* field__icontains = value
icontains(text, value) ==
    \E i \in 0..(Len(text) - Len(value)) :
        SubSeq(lower(text), i + 1, i + Len(value)) = lower(value)

DigitValue(c) ==
    CASE c = "0" -> 0 [] c = "1" -> 1 [] c = "2" -> 2 [] c = "3" -> 3
      [] c = "4" -> 4 [] c = "5" -> 5 [] c = "6" -> 6 [] c = "7" -> 7
      [] c = "8" -> 8 [] c = "9" -> 9

\* The number a numeric column's lookup makes of a parameter's digits
RECURSIVE to_python(_)
to_python(digits) ==
    IF digits = <<>> THEN 0
    ELSE 10 * to_python(SubSeq(digits, 1, Len(digits) - 1))
           + DigitValue(digits[Len(digits)])

----------------------------------------------------------------------------
(* request.query_params: each key holds no value ({}) or one text ({v}) *)

ParamKeys == {"type", "location", "min_price", "max_price", "guests", "search"}

NoParams == [key \in ParamKeys |-> {}]

\* value = query_params.get(key) followed by "if value:"
Given(params, key) == params[key] # {} /\ params[key] # {<<>>}

Value(params, key) == CHOOSE v \in params[key] : TRUE

----------------------------------------------------------------------------
(* ListingViewSet *)

\* ListingSerializer: every field but id and owner is taken from the payload
ListingSerializer_create(pk, payload, owner) ==
    [id |-> pk, owner |-> owner, title |-> payload.title,
     description |-> payload.description, location |-> payload.location,
     listing_type |-> payload.listing_type,
     price_per_night |-> payload.price_per_night,
     max_guests |-> payload.max_guests, is_active |-> payload.is_active]

ListingSerializer_update(instance, payload) ==
    ListingSerializer_create(instance.id, payload, instance.owner)

\* Variant of ActiveListings: the is_active filter left out
ActiveListings_All == Objects(listings)

\* Listing.objects.filter(is_active=True)
ActiveListings == SelectSeq(Objects(listings), LAMBDA l : l.is_active)

\* Variant of PriceRange: __gt and __lt in place of __gte and __lte
PriceRange_Exclusive(queryset, params) ==
    LET lo == IF Given(params, "min_price")
              THEN SelectSeq(queryset, LAMBDA l :
                       l.price_per_night > to_python(Value(params, "min_price")))
              ELSE queryset
    IN  IF Given(params, "max_price")
        THEN SelectSeq(lo, LAMBDA l :
                 l.price_per_night < to_python(Value(params, "max_price")))
        ELSE lo

\* The price range filters: price_per_night__gte, price_per_night__lte
PriceRange(queryset, params) ==
    LET lo == IF Given(params, "min_price")
              THEN SelectSeq(queryset, LAMBDA l :
                       l.price_per_night >= to_python(Value(params, "min_price")))
              ELSE queryset
    IN  IF Given(params, "max_price")
        THEN SelectSeq(lo, LAMBDA l :
                 l.price_per_night <= to_python(Value(params, "max_price")))
        ELSE lo

\* The free-text search
Search(queryset, params) ==
    IF Given(params, "search")
    THEN SelectSeq(queryset, LAMBDA l :
             \/ icontains(l.title, Value(params, "search"))
             \/ icontains(l.description, Value(params, "search"))
             \/ icontains(l.location, Value(params, "search")))
    ELSE queryset

ListingViewSet_get_queryset(params) ==
    LET q0 == ActiveListings
        q1 == IF Given(params, "type")
              THEN SelectSeq(q0, LAMBDA l :
                       exact(l.listing_type, Value(params, "type")))
              ELSE q0
        q2 == IF Given(params, "location")
              THEN SelectSeq(q1, LAMBDA l :
                       icontains(l.location, Value(params, "location")))
              ELSE q1
        q3 == PriceRange(q2, params)
        q4 == IF Given(params, "guests")
              THEN SelectSeq(q3, LAMBDA l :
                       l.max_guests >= to_python(Value(params, "guests")))
              ELSE q3
    IN  Search(q4, params)

\* GET /listings/
ListingViewSet_list(user, params) ==
    /\ request' = Request("listing_list", user, 0, params, None)
    /\ IF ~IsAuthenticatedOrReadOnly("GET", user)
       THEN NotAuthenticated("listing_list")
       ELSE /\ response' = Response("listing_list", HTTP_200_OK, "",
                                    ListingViewSet_get_queryset(params))
            /\ UNCHANGED <<listings, bookings, reviews>>

\* perform_create: the row that serializer.save(owner=request.user) stores
ListingViewSet_perform_create(pk, payload, user) ==
    ListingSerializer_create(pk, payload, user)

\* GET /listings/{pk}/
ListingViewSet_retrieve(user, pk, params) ==
    /\ request' = Request("listing_retrieve", user, pk, params, None)
    /\ IF ~IsAuthenticatedOrReadOnly("GET", user)
       THEN NotAuthenticated("listing_retrieve")
       ELSE IF ~InQuerySet(ListingViewSet_get_queryset(params), pk)
       THEN Http404("listing_retrieve")
       ELSE /\ response' = Response("listing_retrieve", HTTP_200_OK, "",
                                    <<listings[pk]>>)
            /\ UNCHANGED <<listings, bookings, reviews>>

\* perform_update: what it returns, and the row the table holds afterwards
ListingViewSet_perform_update(user, instance, payload) ==
    IF instance.owner # user
    THEN [returned |-> Response("listing_update", HTTP_403_FORBIDDEN,
                                "You can only update your own listings", <<>>),
          row |-> instance]
    ELSE [returned |-> None,
          row |-> ListingSerializer_update(instance, payload)]

\* PUT /listings/{pk}/ : UpdateModelMixin.update calls perform_update, drops
\* what it returns and answers with serializer.data
ListingViewSet_update(user, pk, params, payload) ==
    /\ request' = Request("listing_update", user, pk, params, payload)
    /\ IF ~IsAuthenticatedOrReadOnly("PUT", user)
       THEN NotAuthenticated("listing_update")
       ELSE IF ~InQuerySet(ListingViewSet_get_queryset(params), pk)
       THEN Http404("listing_update")
       ELSE LET done == ListingViewSet_perform_update(user, listings[pk], payload)
            IN  /\ listings' = [listings EXCEPT ![pk] = done.row]
                /\ response' = Response("listing_update", HTTP_200_OK, "",
                                        <<done.row>>)
                /\ UNCHANGED <<bookings, reviews>>

\* perform_destroy: what it returns, and whether the row was deleted
ListingViewSet_perform_destroy(user, instance) ==
    IF instance.owner # user
    THEN [returned |-> Response("listing_destroy", HTTP_403_FORBIDDEN,
                                "You can only delete your own listings", <<>>),
          deleted |-> FALSE]
    ELSE [returned |-> None, deleted |-> TRUE]

\* instance.delete() takes the rows that reference the listing with it
Cascade(table, pk) ==
    [i \in DOMAIN table |->
        IF table[i].id # 0 /\ table[i].listing = pk THEN Deleted ELSE table[i]]

\* DELETE /listings/{pk}/ : DestroyModelMixin.destroy calls perform_destroy,
\* drops what it returns and answers 204
ListingViewSet_destroy(user, pk, params) ==
    /\ request' = Request("listing_destroy", user, pk, params, None)
    /\ IF ~IsAuthenticatedOrReadOnly("DELETE", user)
       THEN NotAuthenticated("listing_destroy")
       ELSE IF ~InQuerySet(ListingViewSet_get_queryset(params), pk)
       THEN Http404("listing_destroy")
       ELSE LET done == ListingViewSet_perform_destroy(user, listings[pk])
            IN  /\ listings' = IF done.deleted
                               THEN [listings EXCEPT ![pk] = Deleted]
                               ELSE listings
                /\ bookings' = IF done.deleted THEN Cascade(bookings, pk)
                               ELSE bookings
                /\ reviews' = IF done.deleted THEN Cascade(reviews, pk)
                              ELSE reviews
                /\ response' = Response("listing_destroy", HTTP_204_NO_CONTENT,
                                        "", <<>>)

\* GET /listings/{pk}/reviews/
ListingViewSet_reviews(user, pk, params) ==
    /\ request' = Request("listing_reviews", user, pk, params, None)
    /\ IF ~IsAuthenticatedOrReadOnly("GET", user)
       THEN NotAuthenticated("listing_reviews")
       ELSE IF ~InQuerySet(ListingViewSet_get_queryset(params), pk)
       THEN Http404("listing_reviews")
       ELSE /\ response' = Response("listing_reviews", HTTP_200_OK, "",
                    SelectSeq(Objects(reviews), LAMBDA r : r.listing = pk))
            /\ UNCHANGED <<listings, bookings, reviews>>

\* Variant of bookings_IsOwner: the owner test left out
bookings_IsOwner_Skipped(user, listing) == TRUE

\* The owner test of the bookings action
bookings_IsOwner(user, listing) == user = listing.owner

\* GET /listings/{pk}/bookings/
ListingViewSet_bookings(user, pk, params) ==
    /\ request' = Request("listing_bookings", user, pk, params, None)
    /\ IF ~IsAuthenticatedOrReadOnly("GET", user)
       THEN NotAuthenticated("listing_bookings")
       ELSE IF ~InQuerySet(ListingViewSet_get_queryset(params), pk)
       THEN Http404("listing_bookings")
       ELSE IF ~bookings_IsOwner(user, listings[pk])
       THEN /\ response' = Response("listing_bookings", HTTP_403_FORBIDDEN,
                                    "Permission denied", <<>>)
            /\ UNCHANGED <<listings, bookings, reviews>>
       ELSE /\ response' = Response("listing_bookings", HTTP_200_OK, "",
                    SelectSeq(Objects(bookings), LAMBDA b : b.listing = pk))
            /\ UNCHANGED <<listings, bookings, reviews>>

----------------------------------------------------------------------------
(* BookingViewSet *)

BookingStatuses == {"pending", "confirmed", "cancelled", "completed"}

\* request.data of POST /bookings/ ; listing 3 is not in the store
BookingPayloads ==
    [listing : {1, 2, 3}, guest : {"bob"}, status : {"cancelled"}]

\* request.data of PATCH /bookings/{pk}/
BookingPatches == [guest : {"carol"}, status : {"cancelled"}]

\* request.data.get('status') of update_status
StatusInputs == BookingStatuses \cup {"archived", None}

\* BookingSerializer: listing must name a stored listing; guest and status
\* are read-only, a new booking is pending.  The stay dates and the guest
\* count, which an update may write, are not part of the rows of the model.
BookingSerializer_is_valid(payload) == Exists(listings, payload.listing)

BookingSerializer_create(pk, payload, guest) ==
    [id |-> pk, listing |-> payload.listing, guest |-> guest,
     status |-> "pending"]

BookingSerializer_update(instance, payload) == instance

\* booking.listing.owner
BookingListingOwner(booking) == listings[booking.listing].owner

\* Booking JOIN Listing ON booking.listing_id = listing.id, as <<b, l>> rows
RECURSIVE BookingJoinListing(_)
BookingJoinListing(rows) ==
    IF rows = <<>> THEN <<>>
    ELSE LET b == rows[1]
             ls == SelectSeq(Objects(listings), LAMBDA l : l.id = b.listing)
         IN  [i \in 1..Len(ls) |-> <<b, ls[i]>>]
               \o BookingJoinListing(Tail(rows))

\* Variant of get_queryset: Q(guest=user) alone
BookingViewSet_get_queryset_GuestOnly(user, swagger_fake_view) ==
    IF swagger_fake_view THEN <<>>
    ELSE IF ~is_authenticated(user) THEN <<>>
    ELSE LET joined == BookingJoinListing(Objects(bookings))
             hit == SelectSeq(joined, LAMBDA bl : bl[1].guest = user)
         IN  Distinct([i \in 1..Len(hit) |-> hit[i][1]])

\* Variant of get_queryset: Booking.objects.all() for any authenticated user
BookingViewSet_get_queryset_Everything(user, swagger_fake_view) ==
    IF swagger_fake_view THEN <<>>
    ELSE IF ~is_authenticated(user) THEN <<>>
    ELSE Objects(bookings)

\* get_queryset: none() for schema generation and for anonymous users, else
\* filter(Q(guest=user) | Q(listing__owner=user)).distinct()
BookingViewSet_get_queryset(user, swagger_fake_view) ==
    IF swagger_fake_view THEN <<>>
    ELSE IF ~is_authenticated(user) THEN <<>>
    ELSE LET joined == BookingJoinListing(Objects(bookings))
             hit == SelectSeq(joined,
                        LAMBDA bl : bl[1].guest = user \/ bl[2].owner = user)
         IN  Distinct([i \in 1..Len(hit) |-> hit[i][1]])

\* GET /bookings/
BookingViewSet_list(user) ==
    /\ request' = Request("booking_list", user, 0, None, None)
    /\ IF ~IsAuthenticated(user) THEN NotAuthenticated("booking_list")
       ELSE /\ response' = Response("booking_list", HTTP_200_OK, "",
                                    BookingViewSet_get_queryset(user, FALSE))
            /\ UNCHANGED <<listings, bookings, reviews>>

\* Schema generation: swagger_fake_view is set and there is no real request
BookingViewSet_schema ==
    /\ request' = Request("booking_schema", AnonymousUser, 0, None, None)
    /\ response' = Response("booking_schema", HTTP_200_OK, "",
                            BookingViewSet_get_queryset(AnonymousUser, TRUE))
    /\ UNCHANGED <<listings, bookings, reviews>>

\* POST /bookings/ : perform_create saves with guest = request.user
BookingViewSet_perform_create(user, payload) ==
    LET pk == Len(bookings) + 1
        row == BookingSerializer_create(pk, payload, user)
    IN  /\ bookings' = Append(bookings, row)
        /\ response' = Response("booking_create", HTTP_201_CREATED, "", <<row>>)

BookingViewSet_create(user, payload) ==
    /\ request' = Request("booking_create", user, 0, None, payload)
    /\ Len(bookings) < MaxBookings
    /\ IF ~IsAuthenticated(user) THEN NotAuthenticated("booking_create")
       ELSE IF ~BookingSerializer_is_valid(payload)
       THEN /\ response' = Response("booking_create", HTTP_400_BAD_REQUEST,
                                    INVALID, <<>>)
            /\ UNCHANGED <<listings, bookings, reviews>>
       ELSE /\ BookingViewSet_perform_create(user, payload)
            /\ UNCHANGED <<listings, reviews>>

\* PATCH /bookings/{pk}/ : the mixin's own perform_update, serializer.save()
BookingViewSet_partial_update(user, pk, payload) ==
    /\ request' = Request("booking_update", user, pk, None, payload)
    /\ IF ~IsAuthenticated(user) THEN NotAuthenticated("booking_update")
       ELSE IF ~InQuerySet(BookingViewSet_get_queryset(user, FALSE), pk)
       THEN Http404("booking_update")
       ELSE LET row == BookingSerializer_update(bookings[pk], payload)
            IN  /\ bookings' = [bookings EXCEPT ![pk] = row]
                /\ response' = Response("booking_update", HTTP_200_OK, "", <<row>>)
                /\ UNCHANGED <<listings, reviews>>

\* DELETE /bookings/{pk}/ : the mixin's own perform_destroy, instance.delete()
BookingViewSet_destroy(user, pk) ==
    /\ request' = Request("booking_destroy", user, pk, None, None)
    /\ IF ~IsAuthenticated(user) THEN NotAuthenticated("booking_destroy")
       ELSE IF ~InQuerySet(BookingViewSet_get_queryset(user, FALSE), pk)
       THEN Http404("booking_destroy")
       ELSE /\ bookings' = [bookings EXCEPT ![pk] = Deleted]
            /\ response' = Response("booking_destroy", HTTP_204_NO_CONTENT, "", <<>>)
            /\ UNCHANGED <<listings, reviews>>

\* Variant of update_status_IsOwner: the guest passes too
update_status_IsOwner_OrGuest(user, booking) ==
    user = BookingListingOwner(booking) \/ user = booking.guest

\* The owner test of update_status
update_status_IsOwner(user, booking) == user = BookingListingOwner(booking)

\* Variant of update_status_IsValid: any status that is present passes
update_status_IsValid_AnyText(new_status) == new_status # None

\* The status test of update_status
update_status_IsValid(new_status) ==
    new_status \in {"pending", "confirmed", "cancelled", "completed"}

\* PATCH /bookings/{pk}/update_status/
BookingViewSet_update_status(user, pk, new_status) ==
    /\ request' = Request("update_status", user, pk, None, new_status)
    /\ IF ~IsAuthenticated(user) THEN NotAuthenticated("update_status")
       ELSE IF ~InQuerySet(BookingViewSet_get_queryset(user, FALSE), pk)
       THEN Http404("update_status")
       ELSE IF ~update_status_IsOwner(user, bookings[pk])
       THEN /\ response' = Response("update_status", HTTP_403_FORBIDDEN,
                    "Only listing owner can update booking status", <<>>)
            /\ UNCHANGED <<listings, bookings, reviews>>
       ELSE IF ~update_status_IsValid(new_status)
       THEN /\ response' = Response("update_status", HTTP_400_BAD_REQUEST,
                                    "Invalid status", <<>>)
            /\ UNCHANGED <<listings, bookings, reviews>>
       ELSE LET row == [bookings[pk] EXCEPT !.status = new_status]
            IN  /\ bookings' = [bookings EXCEPT ![pk] = row]
                /\ response' = Response("update_status", HTTP_200_OK, "", <<row>>)
                /\ UNCHANGED <<listings, reviews>>

----------------------------------------------------------------------------
(* ReviewViewSet *)

Ratings == {3, 5}

\* request.data of a review create / update
ReviewPayloads == [listing : {1, 2, 3}, reviewer : {"bob"}, rating : Ratings]
ReviewPatches == [reviewer : {"bob"}, rating : Ratings]

\* ?listing= of a review request
ReviewParams == {{}, {<<>>}, {<<"1">>}}

\* ReviewSerializer: listing must name a stored listing; reviewer is read-only
ReviewSerializer_is_valid(payload) == Exists(listings, payload.listing)

ReviewSerializer_create(pk, payload, reviewer) ==
    [id |-> pk, listing |-> payload.listing, reviewer |-> reviewer,
     rating |-> payload.rating]

ReviewSerializer_update(instance, payload) ==
    [instance EXCEPT !.rating = payload.rating]

ReviewViewSet_get_queryset(listing_id) ==
    IF listing_id # {} /\ listing_id # {<<>>}
    THEN SelectSeq(Objects(reviews), LAMBDA r :
             r.listing = to_python(CHOOSE v \in listing_id : TRUE))
    ELSE Objects(reviews)

\* GET /reviews/
ReviewViewSet_list(user, listing_id) ==
    /\ request' = Request("review_list", user, 0, listing_id, None)
    /\ IF ~IsAuthenticated(user) THEN NotAuthenticated("review_list")
       ELSE /\ response' = Response("review_list", HTTP_200_OK, "",
                                    ReviewViewSet_get_queryset(listing_id))
            /\ UNCHANGED <<listings, bookings, reviews>>

\* POST /reviews/ : perform_create saves with reviewer = request.user
ReviewViewSet_perform_create(user, payload) ==
    LET pk == Len(reviews) + 1
        row == ReviewSerializer_create(pk, payload, user)
    IN  /\ reviews' = Append(reviews, row)
        /\ response' = Response("review_create", HTTP_201_CREATED, "", <<row>>)

ReviewViewSet_create(user, payload) ==
    /\ request' = Request("review_create", user, 0, None, payload)
    /\ Len(reviews) < MaxReviews
    /\ IF ~IsAuthenticated(user) THEN NotAuthenticated("review_create")
       ELSE IF ~ReviewSerializer_is_valid(payload)
       THEN /\ response' = Response("review_create", HTTP_400_BAD_REQUEST,
                                    INVALID, <<>>)
            /\ UNCHANGED <<listings, bookings, reviews>>
       ELSE /\ ReviewViewSet_perform_create(user, payload)
            /\ UNCHANGED <<listings, bookings>>

\* perform_update: what it returns, and the row the table holds afterwards
ReviewViewSet_perform_update(user, instance, payload) ==
    IF instance.reviewer # user
    THEN [returned |-> Response("review_update", HTTP_403_FORBIDDEN,
                                "You can only update your own reviews", <<>>),
          row |-> instance]
    ELSE [returned |-> None, row |-> ReviewSerializer_update(instance, payload)]

\* PATCH /reviews/{pk}/ : UpdateModelMixin.update calls perform_update, drops
\* what it returns and answers with serializer.data
ReviewViewSet_partial_update(user, pk, listing_id, payload) ==
    /\ request' = Request("review_update", user, pk, listing_id, payload)
    /\ IF ~IsAuthenticated(user) THEN NotAuthenticated("review_update")
       ELSE IF ~InQuerySet(ReviewViewSet_get_queryset(listing_id), pk)
       THEN Http404("review_update")
       ELSE LET done == ReviewViewSet_perform_update(user, reviews[pk], payload)
            IN  /\ reviews' = [reviews EXCEPT ![pk] = done.row]
                /\ response' = Response("review_update", HTTP_200_OK, "",
                                        <<done.row>>)
                /\ UNCHANGED <<listings, bookings>>

\* perform_destroy: what it returns, and whether the row was deleted
ReviewViewSet_perform_destroy(user, instance) ==
    IF instance.reviewer # user
    THEN [returned |-> Response("review_destroy", HTTP_403_FORBIDDEN,
                                "You can only delete your own reviews", <<>>),
          deleted |-> FALSE]
    ELSE [returned |-> None, deleted |-> TRUE]

\* DELETE /reviews/{pk}/ : DestroyModelMixin.destroy calls perform_destroy,
\* drops what it returns and answers 204
ReviewViewSet_destroy(user, pk, listing_id) ==
    /\ request' = Request("review_destroy", user, pk, listing_id, None)
    /\ IF ~IsAuthenticated(user) THEN NotAuthenticated("review_destroy")
       ELSE IF ~InQuerySet(ReviewViewSet_get_queryset(listing_id), pk)
       THEN Http404("review_destroy")
       ELSE LET done == ReviewViewSet_perform_destroy(user, reviews[pk])
            IN  /\ reviews' = IF done.deleted
                              THEN [reviews EXCEPT ![pk] = Deleted]
                              ELSE reviews
                /\ response' = Response("review_destroy", HTTP_204_NO_CONTENT,
                                        "", <<>>)
                /\ UNCHANGED <<listings, bookings>>

----------------------------------------------------------------------------
(* Fixtures *)

LoftInAustin ==
    [title |-> Loft, description |-> Cozy, location |-> Austin,
     listing_type |-> apartment, price_per_night |-> 100, max_guests |-> 2,
     is_active |-> TRUE]

InnInBoston ==
    [title |-> Inn, description |-> ALoft, location |-> Boston,
     listing_type |-> hotel, price_per_night |-> 150, max_guests |-> 4,
     is_active |-> TRUE]

ClosedLoft == [LoftInAustin EXCEPT !.is_active = FALSE]

\* request.data of a listing create / update
ListingPayloads == {LoftInAustin, InnInBoston, ClosedLoft}

\* The query strings sent along with the requests of the listing service
ListingParams == {NoParams, [NoParams EXCEPT !["type"] = {hotel}]}

NoRequest == Request("none", AnonymousUser, 0, None, None)
NoResponse == Response("none", HTTP_200_OK, "", <<>>)

\* alice's loft and bob's inn
FixtureListings ==
    <<ListingViewSet_perform_create(1, LoftInAustin, "alice"),
      ListingViewSet_perform_create(2, InnInBoston, "bob")>>

\* Tables of n rows, row i built from the i-th of n cells
TablesOf(cells, n, Row(_, _)) ==
    {[i \in 1..n |-> Row(i, f[i])] : f \in [1..n -> cells]}

----------------------------------------------------------------------------
(* The booking service, over a store that holds alice's and bob's listings *)

InitBookings ==
    /\ listings = FixtureListings
    /\ bookings = <<>>
    /\ reviews = <<>>
    /\ request = NoRequest
    /\ response = NoResponse

NextBookings ==
    \/ \E user \in Principals, payload \in BookingPayloads :
         BookingViewSet_create(user, payload)
    \/ \E user \in Principals, pk \in BookingIds, payload \in BookingPatches :
         BookingViewSet_partial_update(user, pk, payload)
    \/ \E user \in Principals, pk \in BookingIds :
         BookingViewSet_destroy(user, pk)
    \/ \E user \in Principals, pk \in BookingIds, new_status \in StatusInputs :
         BookingViewSet_update_status(user, pk, new_status)

SpecBookings == InitBookings /\ [][NextBookings]_vars

----------------------------------------------------------------------------
(* The booking list, over every store of two listings and a few bookings *)

OwnedListing(pk, owner) ==
    ListingViewSet_perform_create(
        pk, IF pk = 1 THEN LoftInAustin ELSE InnInBoston, owner)

BookingCells == [listing : {1, 2}, guest : Users]

BookingRow(pk, cell) ==
    [id |-> pk, listing |-> cell.listing, guest |-> cell.guest,
     status |-> "pending"]

InitBookingList ==
    /\ listings \in TablesOf(Users, 2, OwnedListing)
    /\ bookings \in UNION {TablesOf(BookingCells, n, BookingRow) :
                             n \in 0..MaxBookingRows}
    /\ reviews = <<>>
    /\ request = NoRequest
    /\ response = NoResponse

NextBookingList ==
    \/ \E user \in Principals : BookingViewSet_list(user)
    \/ BookingViewSet_schema

SpecBookingList == InitBookingList /\ [][NextBookingList]_vars

----------------------------------------------------------------------------
(* The listing service, over the stores in which alice, bob and carol have
   created one listing each, in turn, and the listings have bookings and
   reviews *)

Creator(pk) == CASE pk = 1 -> "alice" [] pk = 2 -> "bob" [] OTHER -> "carol"

ListingRow(pk, payload) ==
    ListingViewSet_perform_create(pk, payload, Creator(pk))

\* carol and bob have booked the first listing, alice the last one
FixtureBookings(n) ==
    <<[id |-> 1, listing |-> 1, guest |-> "carol", status |-> "pending"],
      [id |-> 2, listing |-> 1, guest |-> "bob", status |-> "confirmed"],
      [id |-> 3, listing |-> n, guest |-> "alice", status |-> "pending"]>>

FixtureReviews(n) ==
    <<[id |-> 1, listing |-> 1, reviewer |-> "carol", rating |-> 5],
      [id |-> 2, listing |-> n, reviewer |-> "bob", rating |-> 3]>>

InitListings ==
    /\ listings \in UNION {TablesOf(ListingPayloads, n, ListingRow) :
                             n \in 1..MaxListings}
    /\ bookings = FixtureBookings(Len(listings))
    /\ reviews = FixtureReviews(Len(listings))
    /\ request = NoRequest
    /\ response = NoResponse

NextListings ==
    \/ \E user \in Principals, params \in ListingParams :
         ListingViewSet_list(user, params)
    \/ \E user \in Principals, pk \in ListingIds, params \in ListingParams :
         ListingViewSet_retrieve(user, pk, params)
    \/ \E user \in Principals, pk \in ListingIds, params \in ListingParams,
          payload \in ListingPayloads :
         ListingViewSet_update(user, pk, params, payload)
    \/ \E user \in Principals, pk \in ListingIds, params \in ListingParams :
         ListingViewSet_destroy(user, pk, params)
    \/ \E user \in Principals, pk \in ListingIds, params \in ListingParams :
         ListingViewSet_reviews(user, pk, params)
    \/ \E user \in Principals, pk \in ListingIds, params \in ListingParams :
         ListingViewSet_bookings(user, pk, params)

SpecListings == InitListings /\ [][NextListings]_vars

----------------------------------------------------------------------------
(* The review service, over a store that holds alice's and bob's listings *)

InitReviews ==
    /\ listings = FixtureListings
    /\ bookings = <<>>
    /\ reviews = <<>>
    /\ request = NoRequest
    /\ response = NoResponse

NextReviews ==
    \/ \E user \in Principals, listing_id \in ReviewParams :
         ReviewViewSet_list(user, listing_id)
    \/ \E user \in Principals, payload \in ReviewPayloads :
         ReviewViewSet_create(user, payload)
    \/ \E user \in Principals, pk \in ReviewIds, listing_id \in ReviewParams,
          payload \in ReviewPatches :
         ReviewViewSet_partial_update(user, pk, listing_id, payload)
    \/ \E user \in Principals, pk \in ReviewIds, listing_id \in ReviewParams :
         ReviewViewSet_destroy(user, pk, listing_id)

SpecReviews == InitReviews /\ [][NextReviews]_vars

----------------------------------------------------------------------------
(* The listing search, over every store and query string of the sets below *)

FilterCells ==
    [title : {Loft, Inn}, description : {Cozy, ALoft},
     location : {Austin, Boston, Loftus}, listing_type : {apartment, hotel},
     price_per_night : {80, 100, 150}, max_guests : {1, 2},
     is_active : BOOLEAN]

\* The listings that may stand second in the table
SecondCells ==
    {c \in FilterCells : /\ c.title = Loft /\ c.description = Cozy
                         /\ c.location = Austin /\ c.max_guests = 2
                         /\ c.price_per_night = 100}

FilterRow(pk, cell) == ListingViewSet_perform_create(pk, cell, "alice")

FilterTables ==
    {<<FilterRow(1, c)>> : c \in FilterCells}
      \cup {<<FilterRow(1, c), FilterRow(2, d)>> :
              c \in FilterCells, d \in SecondCells}

FilterParams ==
    [type : {{}, {<<>>}, {hotel}},
     location : {{}, {<<"a", "u", "s", "t", "i", "n">>}},
     min_price : {{}, {<<"1", "0", "0">>}},
     max_price : {{}, {<<"1", "0", "0">>}, {<<"0">>}},
     guests : {{}, {<<"2">>}},
     search : {{}, {<<"L", "O", "F", "T">>}}]

InitFilters ==
    /\ listings \in FilterTables
    /\ bookings = <<>>
    /\ reviews = <<>>
    /\ request \in {Request("listing_list", user, 0, params, None) :
                      user \in {AnonymousUser, "alice"}, params \in FilterParams}
    /\ response = NoResponse

\* The request drawn at the start is the one handled
NextFilters == ListingViewSet_list(request.user, request.params)

SpecFilters == InitFilters /\ [][NextFilters]_vars

----------------------------------------------------------------------------
(* What the properties below say of a listing and a query string *)

\* text holds value somewhere, letter case aside
ContainsIgnoringCase(text, value) ==
    \E a \in 0..Len(text) :
        /\ a + Len(value) <= Len(text)
        /\ \A k \in 1..Len(value) : LowerChar(text[a + k]) = LowerChar(value[k])

\* The numbers the query strings of the model spell
Numeral(value) ==
    CASE value = <<"0">> -> 0
      [] value = <<"2">> -> 2
      [] value = <<"1", "0", "0">> -> 100

\* The listing is active and satisfies every filter the query string supplies
\* with a non-empty value
Matches(l, params) ==
    /\ l.is_active
    /\ \A v \in params["type"] : v # <<>> => l.listing_type = v
    /\ \A v \in params["location"] :
         v # <<>> => ContainsIgnoringCase(l.location, v)
    /\ \A v \in params["min_price"] :
         v # <<>> => l.price_per_night >= Numeral(v)
    /\ \A v \in params["max_price"] :
         v # <<>> => l.price_per_night <= Numeral(v)
    /\ \A v \in params["guests"] : v # <<>> => l.max_guests >= Numeral(v)
    /\ \A v \in params["search"] :
         v # <<>> => \/ ContainsIgnoringCase(l.title, v)
                     \/ ContainsIgnoringCase(l.description, v)
                     \/ ContainsIgnoringCase(l.location, v)

\* rows holds exactly the live rows of table that satisfy Wanted, each once
ExactlyTheRows(rows, table, Wanted(_)) ==
    /\ \A i \in DOMAIN rows :
         rows[i].id \in DOMAIN table /\ rows[i] = table[rows[i].id]
    /\ \A pk \in DOMAIN table :
         Occurrences(rows, pk) =
             IF table[pk].id # 0 /\ Wanted(table[pk]) THEN 1 ELSE 0

----------------------------------------------------------------------------
(* The request a step handles is request', the store it finds is the unprimed
   one, the store and the response it leaves are the primed ones *)

\* The store is left as it was
StoreUnchanged == UNCHANGED <<listings, bookings, reviews>>

\* The step handles a request of one of ops that addresses a stored listing
OnListing(ops) == request'.op \in ops /\ Exists(listings, request'.pk)

\* The step handles an update_status request that addresses a stored booking
OnBooking == request'.op = "update_status" /\ Exists(bookings, request'.pk)

\* The step handles a request of one of ops that addresses a stored review
OnReview(ops) == request'.op \in ops /\ Exists(reviews, request'.pk)

----------------------------------------------------------------------------
(* C1 *)

\* C1 (as claimed): an update or delete of a listing by an authenticated
\* principal who is not its owner is answered 403 Forbidden and leaves the
\* listings table as it was.  Stated for a listing that the request's query
\* string does not hide.
C1_NonOwnerWriteIsForbidden ==
    [][(/\ OnListing({"listing_update", "listing_destroy"})
        /\ Matches(listings[request'.pk], request'.params)
        /\ request'.user \in Users
        /\ request'.user # listings[request'.pk].owner)
       => (response'.status = HTTP_403_FORBIDDEN /\ listings' = listings)]_vars

----------------------------------------------------------------------------
(* C2 *)

\* C2 (as claimed): update_status by a principal who is not the owner of the
\* booking's listing, the booking's guest and unrelated principals too, is
\* answered 403 Forbidden and leaves the bookings as they were, whatever
\* status is asked for.
C2_NonOwnerStatusChangeIsForbidden ==
    [][(/\ OnBooking
        /\ request'.user \in Users
        /\ request'.user # BookingListingOwner(bookings[request'.pk]))
       => (response'.status = HTTP_403_FORBIDDEN /\ bookings' = bookings)]_vars

\* C2 (amended): update_status by a principal who is not the owner of the
\* booking's listing never changes the bookings and returns no booking,
\* whatever status is asked for; it is answered 403 Forbidden when the caller
\* is the booking's guest, 404 Not Found when the caller is another
\* authenticated principal, and as unauthenticated (401 or 403) when the
\* caller is anonymous.
C2_NonOwnerStatusChangeFails ==
    [][(/\ OnBooking
        /\ request'.user # BookingListingOwner(bookings[request'.pk]))
       => /\ bookings' = bookings
          /\ response'.data = <<>>
          /\ IF request'.user = AnonymousUser
             THEN /\ response'.status \in NotAuthenticatedStatus
                  /\ response'.error = NOT_AUTHENTICATED
             ELSE IF request'.user = bookings[request'.pk].guest
             THEN /\ response'.status = HTTP_403_FORBIDDEN
                  /\ response'.error =
                       "Only listing owner can update booking status"
             ELSE /\ response'.status = HTTP_404_NOT_FOUND
                  /\ response'.error = NOT_FOUND]_vars

\* The guest of a confirmed booking has just asked to cancel it and been
\* refused
C2_GuestRefusedOnConfirmedBooking ==
    /\ request.op = "update_status"
    /\ request.data = "cancelled"
    /\ Exists(bookings, request.pk)
    /\ request.user = bookings[request.pk].guest
    /\ request.user # BookingListingOwner(bookings[request.pk])
    /\ bookings[request.pk].status = "confirmed"
    /\ response.status = HTTP_403_FORBIDDEN

----------------------------------------------------------------------------
(* C3 *)

----------------------------------------------------------------------------
(* C4 *)

\* C4 (as claimed): update_status with a value outside the four statuses, or
\* with none, is answered 400 Bad Request and leaves the bookings as they
\* were, whoever the caller is.
C4_InvalidStatusIsBadRequestForAnyCaller ==
    [][(OnBooking /\ request'.data \notin BookingStatuses)
       => (response'.status = HTTP_400_BAD_REQUEST
           /\ bookings' = bookings)]_vars

\* C4 (amended): update_status with a value outside the four statuses, or
\* with none, never changes the bookings; it is answered 400 Bad Request when
\* the caller is the owner of the booking's listing, and with the refusal of
\* the caller (403 for the guest, 404 for another principal, 401 or 403 for
\* an anonymous caller) otherwise.  With one of the four statuses, called by
\* the owner, it stores exactly that status in that booking, changes nothing
\* else, and answers 200 with the updated booking.
C4_StatusValidation ==
    [][OnBooking
       => LET pk == request'.pk
              user == request'.user
              new_status == request'.data
          IN  IF new_status \notin BookingStatuses
              THEN /\ bookings' = bookings
                   /\ response'.status \in
                        IF user = BookingListingOwner(bookings[pk])
                        THEN {HTTP_400_BAD_REQUEST}
                        ELSE IF user = AnonymousUser
                        THEN NotAuthenticatedStatus
                        ELSE IF user = bookings[pk].guest
                        THEN {HTTP_403_FORBIDDEN}
                        ELSE {HTTP_404_NOT_FOUND}
                   /\ user = BookingListingOwner(bookings[pk])
                        => response'.error = "Invalid status"
              ELSE user = BookingListingOwner(bookings[pk])
                   => /\ bookings' =
                           [bookings EXCEPT ![pk].status = new_status]
                      /\ response'.status = HTTP_200_OK
                      /\ response'.data = <<bookings'[pk]>>]_vars

\* The owner of a booked listing has just sent a status outside the four, or
\* none, and been answered 400
C4_OwnerSentInvalidStatus ==
    /\ request.op = "update_status"
    /\ request.data \notin BookingStatuses
    /\ Exists(bookings, request.pk)
    /\ request.user = BookingListingOwner(bookings[request.pk])
    /\ response.status = HTTP_400_BAD_REQUEST

----------------------------------------------------------------------------
(* C5 *)

\* C5 (as claimed): an update or delete of a review by an authenticated
\* principal who is not its reviewer is answered 403 Forbidden and leaves the
\* reviews as they were; the reviewer's own update is answered 200 and
\* stored, the reviewer's own delete is answered 204 and removes the review.
\* Stated for a review that the request's query string does not hide.
C5_NonReviewerWriteIsForbidden ==
    [][(/\ OnReview({"review_update", "review_destroy"})
        /\ request'.params = {}
        /\ request'.user \in Users)
       => LET pk == request'.pk
          IN  IF request'.user # reviews[pk].reviewer
              THEN /\ response'.status = HTTP_403_FORBIDDEN
                   /\ reviews' = reviews
              ELSE IF request'.op = "review_update"
              THEN /\ response'.status = HTTP_200_OK
                   /\ reviews'[pk].rating = request'.data.rating
              ELSE /\ response'.status = HTTP_204_NO_CONTENT
                   /\ ~Exists(reviews', pk)]_vars

----------------------------------------------------------------------------
(* C6 *)

\* C6: the booking list of an authenticated principal holds exactly the
\* stored bookings whose guest, or whose listing's owner, is that principal,
\* each of them once and as stored, also when the principal is both.
C6_BookingListIsGuestOrOwner ==
    (request.op = "booking_list" /\ request.user \in Users)
    => /\ response.status = HTTP_200_OK
       /\ ExactlyTheRows(response.data, bookings,
            LAMBDA b : \/ b.guest = request.user
                       \/ listings[b.listing].owner = request.user)

\* A principal has just listed the bookings and got one made by the principal
\* on the principal's own listing, once, while the store holds a booking
\* that the list leaves out
C6_ListOfGuestAndOwner ==
    /\ request.op = "booking_list"
    /\ \E i \in DOMAIN response.data :
         /\ response.data[i].guest = request.user
         /\ listings[response.data[i].listing].owner = request.user
    /\ Len(response.data) < Len(Objects(bookings))

----------------------------------------------------------------------------
(* C7 *)

\* C7 (as claimed): the booking list of an anonymous caller is answered 200
\* with an empty result.
C7_AnonymousBookingListIsEmpty ==
    (request.op = "booking_list" /\ request.user = AnonymousUser)
    => (response.status = HTTP_200_OK /\ response.data = <<>>)

----------------------------------------------------------------------------
(* C8 *)

\* C8: the listing list answers 200 with exactly the stored listings that are
\* active and satisfy every filter the query string supplies (type exactly,
\* location as a substring letter case aside, min_price <= price_per_night <=
\* max_price, max_guests >= guests, search as a substring of title,
\* description or location letter case aside), each of them once and as
\* stored; a key that is absent or holds the empty text filters nothing.
C8_ListIsExactlyTheMatchingActiveListings ==
    (request.op = "listing_list" /\ response.op = "listing_list")
    => /\ response.status = HTTP_200_OK
       /\ ExactlyTheRows(response.data, listings,
            LAMBDA l : Matches(l, request.params))

\* Of two stored listings the list holds one, under a price range, a location
\* and a search, with a type that holds the empty text
C8_FilteredList ==
    /\ request.op = "listing_list"
    /\ response.op = "listing_list"
    /\ Len(listings) = 2
    /\ Len(response.data) = 1
    /\ request.params["min_price"] # {}
    /\ request.params["max_price"] # {}
    /\ request.params["location"] # {}
    /\ request.params["search"] # {}
    /\ request.params["type"] = {<<>>}

----------------------------------------------------------------------------
(* C9 *)

\* The bookings that reference listing pk
BookingsOf(pk) == SelectSeq(Objects(bookings), LAMBDA b : b.listing = pk)

\* C9 (as claimed): for every stored listing, the bookings action answers its
\* owner 200 with all bookings that reference the listing, and answers
\* anyone else, anonymous callers too, 403 Forbidden with no booking.
\* Stated for requests without query string.
C9_BookingsOfAnyListing ==
    (/\ request.op = "listing_bookings"
     /\ request.params = NoParams
     /\ Exists(listings, request.pk))
    => IF request.user = listings[request.pk].owner
       THEN /\ response.status = HTTP_200_OK
            /\ response.data = BookingsOf(request.pk)
       ELSE /\ response.status = HTTP_403_FORBIDDEN
            /\ response.data = <<>>

\* C9 (amended): for every stored listing that is active and satisfies the
\* filters of the request's query string, the bookings action answers its
\* owner 200 with all bookings that reference the listing, and answers anyone
\* else, anonymous callers too, 403 Forbidden with no booking; for a stored
\* listing that is inactive or fails a filter it answers every caller, the
\* owner too, 404 Not Found with no booking.
C9_BookingsOfVisibleListing ==
    (request.op = "listing_bookings" /\ Exists(listings, request.pk))
    => IF ~Matches(listings[request.pk], request.params)
       THEN /\ response.status = HTTP_404_NOT_FOUND
            /\ response.data = <<>>
       ELSE IF request.user = listings[request.pk].owner
       THEN /\ response.status = HTTP_200_OK
            /\ response.data = BookingsOf(request.pk)
       ELSE /\ response.status = HTTP_403_FORBIDDEN
            /\ response.data = <<>>

\* An owner has just read the bookings of one listing, fewer than the store
\* holds
C9_OwnerReadsBookings ==
    /\ request.op = "listing_bookings"
    /\ Exists(listings, request.pk)
    /\ request.user = listings[request.pk].owner
    /\ response.status = HTTP_200_OK
    /\ Len(response.data) >= 1
    /\ Len(response.data) < Len(Objects(bookings))

----------------------------------------------------------------------------
(* C10 *)

PerListingOps ==
    {"listing_retrieve", "listing_update", "listing_destroy",
     "listing_reviews", "listing_bookings"}

\* The step handles a per-listing request of one of the principals of Who on
\* a stored listing that is inactive or fails a filter of the request's
\* query string
OnHiddenListing(Who) ==
    /\ OnListing(PerListingOps)
    /\ request'.user \in Who
    /\ ~Matches(listings[request'.pk], request'.params)

\* No step changes or deletes a stored listing that is inactive
InactiveListingsStay ==
    \A pk \in ListingIds :
        (Exists(listings, pk) /\ ~listings[pk].is_active)
        => listings'[pk] = listings[pk]

\* C10 (as claimed): retrieve, update, delete, reviews and bookings on a
\* stored listing that is inactive, or fails a filter of the request's query
\* string, are answered 404 Not Found and change nothing, for every
\* principal, the owner and anonymous callers too; and no step changes or
\* deletes a stored listing that is inactive.
C10_HiddenListingIsNotFoundForEveryPrincipal ==
    [][/\ OnHiddenListing(Principals)
            => (response'.status = HTTP_404_NOT_FOUND /\ StoreUnchanged)
       /\ InactiveListingsStay]_vars

\* C10 (amended): the same for every authenticated principal, the owner too;
\* an anonymous caller gets 404 from retrieve, reviews and bookings, and is
\* refused as unauthenticated (401 or 403), before the listing is looked up,
\* by update and delete; none of these changes anything.  Once a listing is
\* inactive, no request of the listing service changes, reactivates or
\* deletes it.
C10_HiddenListingIsNotFound ==
    [][/\ OnHiddenListing(Users)
            => (response'.status = HTTP_404_NOT_FOUND /\ StoreUnchanged)
       /\ OnHiddenListing({AnonymousUser})
            => /\ StoreUnchanged
               /\ IF request'.op \in {"listing_update", "listing_destroy"}
                  THEN response'.status \in NotAuthenticatedStatus
                  ELSE response'.status = HTTP_404_NOT_FOUND
       /\ InactiveListingsStay]_vars

\* The owner of an inactive listing has just asked to update it without any
\* filter, and it was not found
C10_InactiveListingNotFound ==
    /\ request.op = "listing_update"
    /\ request.params = NoParams
    /\ Exists(listings, request.pk)
    /\ ~listings[request.pk].is_active
    /\ request.user = listings[request.pk].owner
    /\ response.status = HTTP_404_NOT_FOUND
====
